---- MODULE Spec2Model ----
(***************************************************************************)
(* The training contract of src/models/curiosity_models.py: five model     *)
(* variants (MLP, CNN, TransformerEncoder, Reformer, GNN), each with       *)
(* forward, class_idx_to_sig, training_step, validation_step, test_step    *)
(* and configure_optimizers.                                               *)
(*                                                                         *)
(* Conventions of the model.                                               *)
(*  - A tensor is a record [id, dtype, shape, data]: data is the row-major *)
(*    sequence of its elements, id names the storage (two tensors with the *)
(*    same id are the same object, so an in-place write through one is     *)
(*    seen through the other).  Floats are stood in for by small integers; *)
(*    a mean is the exact rational <<sum, count>>.                         *)
(*  - The learnable weights are represented by what they compute: the      *)
(*    values the network produces for the batch's input in eval mode.      *)
(*  - Names the source leaves unbound are bound the evident way: the label *)
(*    transform reads the instance's num_classes (the source omits the     *)
(*    receiver), F is torch.nn.functional, warmup_steps is a configuration *)
(*    value, GNN keeps its constructor's flags and receives its edge list. *)
(*  - An exception ends a step: nothing after the raising statement runs.  *)
(*    "AssertionError" is the steps' own assert, "Exception" an error of   *)
(*    the library call that refused its operands.                          *)
(***************************************************************************)
EXTENDS Integers, Sequences, FiniteSets, TLC

\* ---------------------------------------------------------------- bounds
MaxBatch == 2
MaxSig == 2
MaxFold == 1
MaxValue == 1
MaxSeqLen == 2
MaxVocab == 2
MatrixSize == 10
MaxKernel == 4
MaxSteps == 2
MaxUpdates == 1
MaxLen == 3
MaxDModel == 3
MaxWarmup == 4
MaxEpoch == 7

\* ------------------------------------------------------ program constants
DefaultNumClasses == 41
DefaultNumInvariants == 1
Conv3OutChannels == 64
LkMatrixSizes == {MatrixSize}

OddClasses == {2 * s + 1 : s \in 0..MaxSig}
StepClasses == {2 * s + 1 : s \in 1..MaxFold}
Values == 0..MaxValue

VARIABLES
    model,       \* the attributes __init__ sets (flags, layer sizes)
    parameters,  \* the weights: what forward computes for the batch, and their version
    batch,       \* the (x, y) pair the steps receive
    y_hat,       \* what the last forward pass returned
    logged,      \* the (name, value) pairs passed to self.log, in order
    returned,    \* what the last step returned
    raised,      \* the exception that ended the last step, or "None"
    calls,       \* the calls the last step made
    last_step,   \* the step that ran last
    n_steps,     \* steps run so far
    scheduler,   \* LambdaLR: last_epoch and the current and previous factor
    sig          \* a tensor handed to class_idx_to_sig, and what came back

vars == <<model, parameters, batch, y_hat, logged, returned, raised, calls,
          last_step, n_steps, scheduler, sig>>

\* ------------------------------------------------------------- arithmetic
Max(a, b) == IF a >= b THEN a ELSE b

Abs(a) == IF a >= 0 THEN a ELSE -a

RECURSIVE SumTo(_, _)
SumTo(f, n) == IF n = 0 THEN 0 ELSE f[n] + SumTo(f, n - 1)

RECURSIVE Numel(_)
Numel(shape) == IF shape = <<>> THEN 1 ELSE Head(shape) * Numel(Tail(shape))

RatEq(a, b) == a[1] * b[2] = b[1] * a[2]

RatLess(a, b) == a[1] * b[2] < b[1] * a[2]

\* ---------------------------------------------------------------- tensors
NoTensor == [id |-> "None", dtype |-> "None", shape |-> <<>>, data |-> <<>>]

\* Tensor.to(dtype): the tensor itself when it already has the dtype, a
\* converted copy otherwise.
To(t, dtype) ==
    IF t.dtype = dtype THEN t
    ELSE [id |-> "y.to", dtype |-> dtype, shape |-> t.shape, data |-> t.data]

\* The row-major position of element (i, j) of a 2-D tensor with C columns.
Flat2(C, i, j) == (i - 1) * C + j

\* Tensor.argmax(1) of an (N, C) tensor: per row, the 0-based index of the
\* first greatest element; a new int64 tensor of shape (N,).
argmax(t) ==
    LET N == t.shape[1]
        C == t.shape[2]
        best(i) == CHOOSE c \in 1..C :
                      /\ \A d \in 1..C : t.data[Flat2(C, i, d)] <= t.data[Flat2(C, i, c)]
                      /\ \A d \in 1..(c - 1) : t.data[Flat2(C, i, d)] < t.data[Flat2(C, i, c)]
    IN  [id |-> "class_idxs", dtype |-> "int64", shape |-> <<N>>,
         data |-> [i \in 1..N |-> best(i) - 1]]

\* Tensor.unsqueeze(1) of an (N,) tensor: a view of shape (N, 1).
unsqueeze(t) == [t EXCEPT !.shape = <<t.shape[1], 1>>]

\* A shape padded on the left with 1s to three dimensions, as broadcasting
\* aligns trailing dimensions.
Pad3(shape) ==
    CASE Len(shape) = 0 -> <<1, 1, 1>>
      [] Len(shape) = 1 -> <<1, 1, shape[1]>>
      [] Len(shape) = 2 -> <<1, shape[1], shape[2]>>
      [] OTHER -> shape

Broadcastable(s1, s2) ==
    \A d \in 1..3 : \/ Pad3(s1)[d] = Pad3(s2)[d]
                    \/ Pad3(s1)[d] = 1
                    \/ Pad3(s2)[d] = 1

BroadcastShape(s1, s2) == [d \in 1..3 |-> Max(Pad3(s1)[d], Pad3(s2)[d])]

\* Element n (row-major, 1-based) of tensor t expanded to the 3-D shape S.
Expanded(t, S, n) ==
    LET p == Pad3(t.shape)
        k == (n - 1) % S[3]
        j == ((n - 1) \div S[3]) % S[2]
        i == (n - 1) \div (S[3] * S[2])
        ii == IF p[1] = 1 THEN 0 ELSE i
        jj == IF p[2] = 1 THEN 0 ELSE j
        kk == IF p[3] = 1 THEN 0 ELSE k
    IN  t.data[(ii * p[2] + jj) * p[3] + kk + 1]

\* ------------------------------------------------------------------ losses
NoLoss == [fn |-> "None", num |-> 0, den |-> 1, smoothing |-> <<0, 1>>]

\* label_smoothing=0.1, as the rational 1/10.
label_smoothing == <<1, 10>>

\* nn.MSELoss(): the operands are broadcast against each other and the
\* squared differences averaged over every element of the broadcast shape.
mse_loss(input, target) ==
    LET S == BroadcastShape(input.shape, target.shape)
        n == Numel(S)
        sq == [e \in 1..n |-> (Expanded(input, S, e) - Expanded(target, S, e))
                              * (Expanded(input, S, e) - Expanded(target, S, e))]
    IN  [fn |-> "mse_loss", num |-> SumTo(sq, n), den |-> n, smoothing |-> <<0, 1>>]

\* nn.L1Loss(): as mse_loss, with absolute differences.
l1_loss(input, target) ==
    LET S == BroadcastShape(input.shape, target.shape)
        n == Numel(S)
        ab == [e \in 1..n |-> Abs(Expanded(input, S, e) - Expanded(target, S, e))]
    IN  [fn |-> "l1_loss", num |-> SumTo(ab, n), den |-> n, smoothing |-> <<0, 1>>]

\* nn.CrossEntropyLoss accepts (N, C) scores with N int64 class indices below C.
cross_entropy_accepts(input, target) ==
    /\ Len(input.shape) = 2
    /\ target.shape = <<input.shape[1]>>
    /\ target.dtype = "int64"
    /\ \A i \in DOMAIN target.data : target.data[i] >= 0 /\ target.data[i] < input.shape[2]

\* nn.CrossEntropyLoss(label_smoothing=0.1): the value is not computed, only
\* which loss it is.
cross_entropy(input, target) ==
    [fn |-> "cross_entropy", num |-> 0, den |-> 1, smoothing |-> label_smoothing]

\* --------------------------------------------------------- label transform
\* The fold with the midpoint itself folded.
class_idx_to_sig_inclusive(num_classes, idx) ==
    LET max_min_sig == (num_classes - 1) \div 2
    IN  [idx EXCEPT !.data = [k \in DOMAIN idx.data |->
            IF idx.data[k] >= max_min_sig
            THEN -1 * (idx.data[k] - max_min_sig)
            ELSE idx.data[k]]]

\* The fold written to every element, the mask dropped.
class_idx_to_sig_unmasked(num_classes, idx) ==
    LET max_min_sig == (num_classes - 1) \div 2
    IN  [idx EXCEPT !.data = [k \in DOMAIN idx.data |->
            -1 * (idx.data[k] - max_min_sig)]]

\* max_min_sig = (num_classes-1)/2, an integer for the odd num_classes the
\* model draws; every element above it is overwritten in place and the
\* tensor itself is returned.
class_idx_to_sig(num_classes, idx) ==
    LET max_min_sig == (num_classes - 1) \div 2
    IN  [idx EXCEPT !.data = [k \in DOMAIN idx.data |->
            IF idx.data[k] > max_min_sig
            THEN -1 * (idx.data[k] - max_min_sig)
            ELSE idx.data[k]]]

\* ------------------------------------------------------------ constructors
NoModel ==
    [variant |-> "None", classification |-> FALSE, num_classes |-> DefaultNumClasses,
     out_features |-> 0, dropout |-> FALSE, lk_matrix_size |-> 0, kernel_size |-> 0,
     padding |-> 0, layer_norm |-> FALSE, norm_sides |-> <<0, 0, 0>>, fc1_in |-> 0,
     vocab_size |-> 0, d_model |-> 0, return_embeddings |-> FALSE, warmup_steps |-> 0]

\* MLP.__init__: fc3 has num_invariants outputs whatever the classification flag.
MLP_init(lk_matrix_size, dropout, classification, num_classes) ==
    [NoModel EXCEPT !.variant = "MLP", !.classification = classification,
                    !.num_classes = num_classes, !.lk_matrix_size = lk_matrix_size,
                    !.dropout = dropout, !.out_features = DefaultNumInvariants]

\* CNN.__init__: padding = int(kernel_size == 3); norm1..norm3 and fc1 are sized
\* from lk_matrix_size - j*(3 - kernel_size).
CNN_init(lk_matrix_size, kernel_size, layer_norm, classification, num_classes) ==
    [NoModel EXCEPT !.variant = "CNN", !.classification = classification,
                    !.num_classes = num_classes, !.lk_matrix_size = lk_matrix_size,
                    !.kernel_size = kernel_size, !.layer_norm = layer_norm,
                    !.padding = IF kernel_size = 3 THEN 1 ELSE 0,
                    !.norm_sides = [j \in 1..3 |-> lk_matrix_size - j * (3 - kernel_size)],
                    !.fc1_in = Conv3OutChannels * (lk_matrix_size - 3 * (3 - kernel_size))
                                                * (lk_matrix_size - 3 * (3 - kernel_size)),
                    !.out_features = IF classification THEN num_classes
                                     ELSE DefaultNumInvariants]

\* TransformerEncoder.__init__: final_layer has num_classes outputs, or 1.
TransformerEncoder_init(d_model, warmup_steps, classification, num_classes) ==
    [NoModel EXCEPT !.variant = "TransformerEncoder", !.classification = classification,
                    !.num_classes = num_classes, !.d_model = d_model,
                    !.warmup_steps = warmup_steps,
                    !.out_features = IF classification THEN num_classes ELSE 1]

\* Reformer.__init__: ReformerLM(vocab_size, d_model, ..., return_embeddings =
\* not classification); the head fc = Linear(d_model, 1) only in regression.
Reformer_init(vocab_size, d_model, warmup_steps, classification, num_classes) ==
    [NoModel EXCEPT !.variant = "Reformer", !.classification = classification,
                    !.num_classes = num_classes, !.vocab_size = vocab_size,
                    !.d_model = d_model, !.warmup_steps = warmup_steps,
                    !.return_embeddings = ~classification,
                    !.out_features = IF classification THEN vocab_size ELSE 1]

\* GNN.__init__: fc has num_classes outputs, or 1; F.dropout(p=0.3) in forward.
GNN_init(classification, num_classes) ==
    [NoModel EXCEPT !.variant = "GNN", !.classification = classification,
                    !.num_classes = num_classes, !.dropout = TRUE,
                    !.out_features = IF classification THEN num_classes ELSE 1]

\* ------------------------------------------------------------ forward pass
\* nn.Conv2d with stride 1: the output side of one convolution.
conv_out(side, kernel_size, padding) == side + 2 * padding - kernel_size + 1

\* CNN.forward: the spatial side after conv1, conv2 and conv3.
conv_sides(m) ==
    LET s1 == conv_out(m.lk_matrix_size, m.kernel_size, m.padding)
        s2 == conv_out(s1, m.kernel_size, m.padding)
        s3 == conv_out(s2, m.kernel_size, m.padding)
    IN  <<s1, s2, s3>>

\* CNN.forward raises when a convolution has no output, when a LayerNorm meets a
\* side it was not built for, or when the flattened features do not fit fc1.
CNN_forward_raises(m) ==
    \/ \E j \in 1..3 : conv_sides(m)[j] < 1
    \/ m.layer_norm /\ \E j \in 1..3 : conv_sides(m)[j] # m.norm_sides[j]
    \/ Conv3OutChannels * conv_sides(m)[3] * conv_sides(m)[3] # m.fc1_in

forward_raises(m, x) == m.variant = "CNN" /\ CNN_forward_raises(m)

\* The shape forward returns for input x.
forward_shape(m, x) ==
    CASE m.variant = "MLP" -> <<x.shape[1], m.out_features>>
      [] m.variant = "CNN" -> <<x.shape[1], m.out_features>>
      [] m.variant = "TransformerEncoder" ->
            \* src is (seq_len, batch); mean over dim 0, final_layer, squeeze(-1)
            IF m.out_features = 1 THEN <<x.shape[2]>>
            ELSE <<x.shape[2], m.out_features>>
      [] m.variant = "Reformer" ->
            \* ReformerLM keeps the sequence axis: (batch, seq_len, d_model) as
            \* embeddings, (batch, seq_len, vocab_size) as logits
            <<x.shape[1], x.shape[2], m.out_features>>
      [] OTHER ->
            \* GNN: torch.mean(x, dim=0).unsqueeze(0), then fc
            <<1, m.out_features>>

\* The rows a classifier may score a sample with: one class ahead, or a tie.
LogitRows(C) == {[c \in 1..C |-> IF c = h THEN 1 ELSE 0] : h \in 0..C}

LogitData(N, C) ==
    {[e \in 1..(N * C) |-> rows[((e - 1) \div C) + 1][((e - 1) % C) + 1]] :
        rows \in [1..N -> LogitRows(C)]}

\* Every value the network may compute for x, over all weights.
Outputs(m, x) ==
    IF forward_raises(m, x) THEN {<<>>}
    ELSE LET shape == forward_shape(m, x)
         IN  IF m.classification
             THEN LogitData(Numel(shape) \div m.out_features, m.out_features)
             ELSE [1..Numel(shape) -> Values]

forward(m, data, x) ==
    [id |-> "y_hat", dtype |-> "float32", shape |-> forward_shape(m, x), data |-> data]

\* ------------------------------------------------------- the training loop
NoCalls == [forward |-> 0, class_idx_to_sig |-> 0, log |-> 0]

IdleScheduler == [last_epoch |-> 0, lr |-> <<0, 1>>, prev_lr |-> <<0, 1>>]

IdleSig == [num_classes |-> 1, input |-> <<>>, idx |-> NoTensor,
            once |-> <<>>, calls |-> 0]

\* Every model a constructor call can build, within the bounds.  A regressor
\* keeps the default num_classes, which it never reads.
Models ==
    LET Flags == {<<FALSE, DefaultNumClasses>>} \cup {<<TRUE, nc>> : nc \in StepClasses}
    IN  {MLP_init(lk, dr, f[1], f[2]) : lk \in LkMatrixSizes, dr \in BOOLEAN, f \in Flags}
        \cup {CNN_init(lk, k, ln, f[1], f[2]) :
                 lk \in LkMatrixSizes, k \in 1..MaxKernel, ln \in BOOLEAN, f \in Flags}
        \cup {TransformerEncoder_init(MaxDModel, MaxWarmup, f[1], f[2]) : f \in Flags}
        \cup {Reformer_init(MaxVocab, MaxDModel, MaxWarmup, f[1], f[2]) : f \in Flags}
        \cup {GNN_init(f[1], f[2]) : f \in Flags}

\* The input tensor of a batch of B samples, in the layout the variant reads.
InputShape(m, B) ==
    CASE m.variant = "MLP" -> <<B, m.lk_matrix_size * m.lk_matrix_size>>
      [] m.variant = "CNN" -> <<B, 1, m.lk_matrix_size, m.lk_matrix_size>>
      [] m.variant = "TransformerEncoder" -> <<MaxSeqLen, B>>
      [] m.variant = "Reformer" -> <<B, MaxSeqLen>>
      [] OTHER -> <<B, 1>>

\* The batches the data loader may hand to model m: B samples, the target of
\* shape (B,), class indices in [0, num_classes) for a classifier.
Batches(m) ==
    {[x |-> [id |-> "batch.x", dtype |-> "float32", shape |-> InputShape(m, B), data |-> <<>>],
      y |-> [id |-> "batch.y", dtype |-> dt, shape |-> <<B>>, data |-> d]] :
        B \in 1..MaxBatch,
        dt \in IF m.classification THEN {"int64", "float32"} ELSE {"float32"},
        d \in UNION {[1..n -> IF m.classification THEN 0..(m.num_classes - 1) ELSE Values] :
                        n \in 1..MaxBatch}}

Init ==
    /\ model \in Models
    /\ batch \in {b \in Batches(model) : Len(b.y.data) = b.y.shape[1]}
    /\ \E d \in Outputs(model, batch.x) : parameters = [out |-> d, version |-> 0]
    /\ y_hat = NoTensor
    /\ logged = <<>>
    /\ returned = NoLoss
    /\ raised = "None"
    /\ calls = NoCalls
    /\ last_step = "None"
    /\ n_steps = 0
    /\ scheduler = IdleScheduler
    /\ sig = IdleSig

\* What one run of a step leaves behind.
Outcome(exc, out, b, entries, ret, c) ==
    [raised |-> exc, y_hat |-> out, batch |-> b, entries |-> entries,
     returned |-> ret, calls |-> c]

\* training_step with the forward pass computing `data`.
training_outcome(data) ==
    LET out == forward(model, data, batch.x)
        c == [NoCalls EXCEPT !.forward = 1]
        y == batch.y
    IN  IF forward_raises(model, batch.x)
        THEN Outcome("Exception", NoTensor, batch, <<>>, NoLoss, c)
        ELSE IF model.classification
        THEN IF ~cross_entropy_accepts(out, y)
             THEN Outcome("Exception", out, batch, <<>>, NoLoss, c)
             ELSE Outcome("None", out, batch,
                          <<[name |-> "train_loss", value |-> cross_entropy(out, y)]>>,
                          cross_entropy(out, y), [c EXCEPT !.log = 1])
        ELSE IF ~Broadcastable(out.shape, y.shape)
             THEN Outcome("Exception", out, batch, <<>>, NoLoss, c)
             ELSE Outcome("None", out, batch,
                          <<[name |-> "train_loss", value |-> mse_loss(out, y)]>>,
                          mse_loss(out, y), [c EXCEPT !.log = 1])

\* validation_step and test_step, which differ only in the names they log.
evaluation_outcome(mse_name, l1_name) ==
    LET out == forward(model, parameters.out, batch.x)
        c == [NoCalls EXCEPT !.forward = 1]
        class_idxs == argmax(out)
        pred == IF model.classification
                THEN unsqueeze(class_idx_to_sig(model.num_classes, class_idxs))
                ELSE out
        y == IF model.classification
             THEN class_idx_to_sig(model.num_classes, To(batch.y, "float32"))
             ELSE batch.y
        \* the in-place write lands in the batch when y.to returned y itself
        b == IF y.id = batch.y.id THEN [batch EXCEPT !.y = y] ELSE batch
        c2 == IF model.classification THEN [c EXCEPT !.class_idx_to_sig = 2] ELSE c
    IN  IF forward_raises(model, batch.x)
        THEN Outcome("Exception", NoTensor, batch, <<>>, NoLoss, c)
        ELSE IF model.classification /\ Len(out.shape) # 2
        THEN Outcome("AssertionError", out, batch, <<>>, NoLoss, c)
        ELSE IF ~Broadcastable(pred.shape, y.shape)
        THEN Outcome("Exception", out, b, <<>>, NoLoss, c2)
        ELSE Outcome("None", out, b,
                     <<[name |-> mse_name, value |-> mse_loss(pred, y)],
                       [name |-> l1_name, value |-> l1_loss(pred, y)]>>,
                     NoLoss, [c2 EXCEPT !.log = 2])

Finish(name, o) ==
    /\ last_step' = name
    /\ n_steps' = n_steps + 1
    /\ raised' = o.raised
    /\ y_hat' = o.y_hat
    /\ batch' = o.batch
    /\ logged' = logged \o o.entries
    /\ returned' = o.returned
    /\ calls' = o.calls
    /\ UNCHANGED <<model, parameters, scheduler, sig>>

\* In train mode the dropout layers of MLP and GNN make the output depend on
\* the drawn mask; the other variants compute what the weights determine.
training_step ==
    /\ n_steps < MaxSteps
    /\ \E d \in IF model.dropout THEN Outputs(model, batch.x) ELSE {parameters.out} :
          Finish("training_step", training_outcome(d))

validation_step ==
    /\ n_steps < MaxSteps
    /\ Finish("validation_step", evaluation_outcome("val_mse_loss", "val_l1_loss"))

test_step ==
    /\ n_steps < MaxSteps
    /\ Finish("test_step", evaluation_outcome("test_mse_loss", "test_l1_loss"))

\* The optimizer configure_optimizers returns (Adam, lr=.001) consumes the loss
\* a training step returned and replaces the weights.
optimizer_step ==
    /\ last_step = "training_step"
    /\ returned.fn # "None"
    /\ parameters.version < MaxUpdates
    /\ \E d \in Outputs(model, batch.x) :
          parameters' = [out |-> d, version |-> parameters.version + 1]
    /\ last_step' = "optimizer_step"
    /\ returned' = NoLoss
    /\ UNCHANGED <<model, batch, y_hat, logged, raised, calls, n_steps, scheduler, sig>>

Next ==
    \/ training_step
    \/ validation_step
    \/ test_step
    \/ optimizer_step

Spec == Init /\ [][Next]_vars

\* ------------------------------------------------- the label transform alone
\* torch.arange(num_classes): every class index once.
arange(n) == [i \in 1..n |-> i - 1]

SigInputs(nc) == UNION {[1..n -> 0..(nc - 1)] : n \in 1..MaxLen} \cup {arange(nc)}

InitSig ==
    /\ \E nc \in OddClasses : \E d \in SigInputs(nc) :
          sig = [num_classes |-> nc, input |-> d,
                 idx |-> [id |-> "idx", dtype |-> "float32", shape |-> <<Len(d)>>, data |-> d],
                 once |-> <<>>, calls |-> 0]
    /\ model = NoModel
    /\ parameters = [out |-> <<>>, version |-> 0]
    /\ batch = [x |-> NoTensor, y |-> NoTensor]
    /\ y_hat = NoTensor
    /\ logged = <<>>
    /\ returned = NoLoss
    /\ raised = "None"
    /\ calls = NoCalls
    /\ last_step = "None"
    /\ n_steps = 0
    /\ scheduler = IdleScheduler

\* One call of class_idx_to_sig on the tensor a previous call returned.
apply_class_idx_to_sig ==
    /\ sig.calls < 2
    /\ LET r == class_idx_to_sig(sig.num_classes, sig.idx)
       IN  sig' = [sig EXCEPT !.idx = r,
                              !.once = IF sig.calls = 0 THEN r.data ELSE @,
                              !.calls = @ + 1]
    /\ UNCHANGED <<model, parameters, batch, y_hat, logged, returned, raised, calls,
                   last_step, n_steps, scheduler>>

NextSig == apply_class_idx_to_sig

SpecSig == InitSig /\ [][NextSig]_vars

\* ------------------------------------------------------- the Noam schedule
\* The schedule with the greater of the two terms taken.
noam_lambda_max(d_model, warmup_steps, step) ==
    LET inv_sqrt == <<1, step + 1>>
        linear == <<(step + 1) * (step + 1), warmup_steps * warmup_steps * warmup_steps>>
        least == IF RatLess(linear, inv_sqrt) THEN inv_sqrt ELSE linear
    IN  <<least[1], d_model * least[2]>>

\* noam_lambda(step) = d_model^-0.5 * min((step+1)^-0.5, (step+1) * warmup_steps^-1.5).
\* The factor is positive, so it is represented by its square, the exact rational
\* min(1/(step+1), (step+1)^2 / warmup_steps^3) / d_model, as <<numerator, denominator>>:
\* squaring keeps the order of positive numbers.
noam_lambda(d_model, warmup_steps, step) ==
    LET inv_sqrt == <<1, step + 1>>
        linear == <<(step + 1) * (step + 1), warmup_steps * warmup_steps * warmup_steps>>
        least == IF RatLess(linear, inv_sqrt) THEN linear ELSE inv_sqrt
    IN  <<least[1], d_model * least[2]>>

\* LambdaLR evaluates lr_lambda(0) when it is built.
InitNoam ==
    /\ model \in {TransformerEncoder_init(d, w, FALSE, DefaultNumClasses) :
                     d \in 1..MaxDModel, w \in 1..MaxWarmup}
                 \cup {Reformer_init(MaxVocab, d, w, FALSE, DefaultNumClasses) :
                     d \in 1..MaxDModel, w \in 1..MaxWarmup}
    /\ scheduler = [last_epoch |-> 0,
                    lr |-> noam_lambda(model.d_model, model.warmup_steps, 0),
                    prev_lr |-> noam_lambda(model.d_model, model.warmup_steps, 0)]
    /\ parameters = [out |-> <<>>, version |-> 0]
    /\ batch = [x |-> NoTensor, y |-> NoTensor]
    /\ y_hat = NoTensor
    /\ logged = <<>>
    /\ returned = NoLoss
    /\ raised = "None"
    /\ calls = NoCalls
    /\ last_step = "None"
    /\ n_steps = 0
    /\ sig = IdleSig

\* scheduler.step() ("interval": "step"): last_epoch += 1, then lr_lambda(last_epoch).
lr_scheduler_step ==
    /\ scheduler.last_epoch < MaxEpoch
    /\ scheduler' = [last_epoch |-> scheduler.last_epoch + 1,
                     lr |-> noam_lambda(model.d_model, model.warmup_steps,
                                        scheduler.last_epoch + 1),
                     prev_lr |-> scheduler.lr]
    /\ UNCHANGED <<model, parameters, batch, y_hat, logged, returned, raised, calls,
                   last_step, n_steps, sig>>

NextNoam == lr_scheduler_step

SpecNoam == InitNoam /\ [][NextNoam]_vars

\* ------------------------------------------------------------------ claims
EvaluationSteps == {"validation_step", "test_step"}

BatchSize == batch.y.shape[1]

\* The last n entries of the log.
LastLogged(n) == SubSeq(logged, Len(logged) - n + 1, Len(logged))

\* The signed value of class index v, with twice the midpoint as num_classes - 1.
Signed(nc, v) == IF 2 * v <= nc - 1 THEN v ELSE -((2 * v - (nc - 1)) \div 2)

SignedPrediction ==
    [i \in 1..y_hat.shape[1] |-> Signed(model.num_classes, argmax(y_hat).data[i])]

SignedTarget ==
    [i \in DOMAIN batch.y.data |->
        IF batch.y.data[i] < 0 THEN batch.y.data[i]
        ELSE Signed(model.num_classes, batch.y.data[i])]

AsColumn(d) == [id |-> "expected", dtype |-> "float32", shape |-> <<Len(d), 1>>, data |-> d]

AsVector(d) == [id |-> "expected", dtype |-> "float32", shape |-> <<Len(d)>>, data |-> d]

\* C2: in classification mode every validation_step and test_step computes its
\* two metrics on class_idx_to_sig(argmax of the logits) and
\* class_idx_to_sig(target), and reports exactly the pair val_mse_loss,
\* val_l1_loss (validation) or test_mse_loss, test_l1_loss (test).  Stated
\* for the steps whose forward pass returned.
C2_MetricsOnSignedValues ==
    (model.classification /\ last_step \in EvaluationSteps /\ y_hat # NoTensor) =>
        /\ raised = "None"
        /\ calls.log = 2
        /\ Len(logged) >= 2
        /\ LastLogged(2)[1].name = (IF last_step = "validation_step"
                                    THEN "val_mse_loss" ELSE "test_mse_loss")
        /\ LastLogged(2)[2].name = (IF last_step = "validation_step"
                                    THEN "val_l1_loss" ELSE "test_l1_loss")
        /\ LastLogged(2)[1].value = mse_loss(AsColumn(SignedPrediction), AsVector(SignedTarget))
        /\ LastLogged(2)[2].value = l1_loss(AsColumn(SignedPrediction), AsVector(SignedTarget))

\* C3: every training_step runs the forward pass once, computes cross-entropy
\* (label smoothing 0.1) in classification mode and mean-squared-error
\* otherwise, logs it exactly once as train_loss and returns it; it never calls
\* the label transform and logs no val_* or test_* metric.  Stated for batches
\* whose classification target is the int64 index tensor cross-entropy reads.
C3_TrainingStepContract ==
    (last_step = "training_step" /\ (model.classification => batch.y.dtype = "int64")) =>
        /\ raised = "None"
        /\ calls = [forward |-> 1, class_idx_to_sig |-> 0, log |-> 1]
        /\ Len(logged) >= 1
        /\ LastLogged(1)[1].name = "train_loss"
        /\ LastLogged(1)[1].value = returned
        /\ returned.fn = (IF model.classification THEN "cross_entropy" ELSE "mse_loss")
        /\ model.classification => returned.smoothing = <<1, 10>>

\* C4: in regression mode forward returns, for every variant and every batch of
\* batch_size samples, a tensor of shape (batch_size, 1) or (batch_size,).
C4_RegressionShape ==
    (~model.classification /\ calls.forward = 1 /\ y_hat # NoTensor) =>
        y_hat.shape \in {<<BatchSize, 1>>, <<BatchSize>>}

\* C5: in classification mode forward returns, for every variant and every
\* batch of batch_size samples, a tensor of shape (batch_size, num_classes), so
\* the assertion len(y_hat.shape) == 2 of the evaluation steps holds.
C5_ClassificationShape ==
    (model.classification /\ calls.forward = 1 /\ y_hat # NoTensor) =>
        /\ y_hat.shape = <<BatchSize, model.num_classes>>
        /\ raised # "AssertionError"

\* C6 as claimed: the factor of step s rises to step s+1 whenever s < w and
\* falls whenever s > w (w = warmup_steps, s = last_epoch - 1).
C6_RisesBelowWarmup ==
    scheduler.last_epoch >= 1 =>
        /\ (scheduler.last_epoch - 1 < model.warmup_steps
              => RatLess(scheduler.prev_lr, scheduler.lr))
        /\ (scheduler.last_epoch - 1 > model.warmup_steps
              => RatLess(scheduler.lr, scheduler.prev_lr))

\* C6, amended: the factor of step s rises to step s+1 whenever s + 1 < w and
\* falls whenever s + 1 >= w; the peak is at step w - 1.
C6_PeakAtWarmupMinusOne ==
    scheduler.last_epoch >= 1 =>
        /\ (scheduler.last_epoch < model.warmup_steps
              => RatLess(scheduler.prev_lr, scheduler.lr))
        /\ (scheduler.last_epoch >= model.warmup_steps
              => RatLess(scheduler.lr, scheduler.prev_lr))

\* The scheduler has stepped from w - 1 to w, after at least one rising step.
C6_Witness ==
    /\ model.warmup_steps >= 2
    /\ scheduler.last_epoch = model.warmup_steps
    /\ RatLess(scheduler.lr, scheduler.prev_lr)

C8_ConvSideMatchesConstructor ==
    (/\ model.variant = "CNN"
     /\ calls.forward = 1
     /\ \A j \in 1..3 : conv_sides(model)[j] >= 1) =>
        /\ \A j \in 1..3 :
              /\ conv_sides(model)[j] = model.lk_matrix_size - j * (3 - model.kernel_size)
              /\ conv_sides(model)[j] = model.norm_sides[j]
        /\ Conv3OutChannels * conv_sides(model)[3] * conv_sides(model)[3] = model.fc1_in

PerSampleMean(pred, target, f(_)) ==
    <<SumTo([i \in 1..Len(pred) |-> f(pred[i] - target[i])], Len(pred)), Len(pred)>>

Square(d) == d * d

\* C10: an evaluation step on B samples with a target of shape (B,) reports the
\* mean over the samples of (prediction_i - target_i)^2 and of
\* |prediction_i - target_i|, in regression mode with a (B, 1) output and in
\* classification mode with the transformed arg-max prediction.
C10_PerSampleMetrics ==
    (/\ last_step \in EvaluationSteps
     /\ raised = "None"
     /\ y_hat.shape[1] = BatchSize
     /\ IF model.classification THEN batch.y.dtype = "int64"
                                ELSE y_hat.shape = <<BatchSize, 1>>) =>
        LET pred == IF model.classification THEN SignedPrediction ELSE y_hat.data
            target == IF model.classification THEN SignedTarget ELSE batch.y.data
            mse == LastLogged(2)[1].value
            l1 == LastLogged(2)[2].value
        IN  /\ RatEq(<<mse.num, mse.den>>, PerSampleMean(pred, target, Square))
            /\ RatEq(<<l1.num, l1.den>>, PerSampleMean(pred, target, Abs))

====
